---- MODULE Spec2Model ----
(***************************************************************************)
(* A model of the condensed, reducible cost matrix of little-tsp           *)
(* (src/src/tsp_solver/little_tsp/cost_matrix.cpp): construction from a    *)
(* graph and include/exclude edge sets, Little's row/column reduction,     *)
(* access by original vertex numbers, and the whole-matrix iterator.       *)
(***************************************************************************)
EXTENDS Integers, Sequences, FiniteSets, TLC

VARIABLES
    numVertices,      \* graph.GetNumVertices()
    graph,            \* graph(i, j), a cost for every ordered pair of vertices
    include,          \* the include edges handed to the constructor
    exclude,          \* the exclude edges handed to the constructor
    row_mapping_,     \* CostMatrix::row_mapping_    (vertex -> condensed row)
    column_mapping_,  \* CostMatrix::column_mapping_ (vertex -> condensed column)
    cost_matrix_,     \* CostMatrix::cost_matrix_    (Matrix<CostMatrixInteger>)
    before,           \* cost_matrix_ as it was when ReduceMatrix was called
    pc,               \* "constructed", "returned", "aborted"
    fault,            \* which assertion or access stopped ReduceMatrix
    decremented,      \* the value ReduceMatrix returns
    rows_total,       \* decremented when the loop over the rows ended (line 74)
    call,             \* the last accessor call and its arguments
    ret,              \* what that call returned, or the error it threw
    row_num_,         \* CostMatrix::Iterator::row_num_
    column_num_,      \* CostMatrix::Iterator::column_num_
    it_state,         \* "iterating", or "undefined" after a division by zero
    visited           \* the cells the iterator was at before each increment

vars == <<numVertices, graph, include, exclude, row_mapping_, column_mapping_,
          cost_matrix_, before, pc, fault, decremented, rows_total, call, ret,
          row_num_, column_num_, it_state, visited>>

-----------------------------------------------------------------------------
(* The inputs the model enumerates: the graphs' vertex counts and costs, and *)
(* the largest include and exclude sets handed to the constructor.          *)

VertexCounts == 1..3

\* The costs of a graph of n vertices: a wider range on the smaller graphs.
Costs(n) == IF n <= 2 THEN 0..3 ELSE 0..1

MaxInclude == 2

MaxExclude == 2

-----------------------------------------------------------------------------
(* Edge and CostMatrixInteger. *)

Edge(u, v) == [u |-> u, v |-> v]

NoEdge == Edge(-1, -1)

\* A cell of a Matrix after SetSize and before anything is stored in it.
DefaultCell == [value |-> 0, infinite |-> FALSE, edge |-> NoEdge]

\* CostMatrixInteger{value, edge}: a finite cost that remembers its edge.
CostMatrixInteger(value, edge) == [value |-> value, infinite |-> FALSE, edge |-> edge]

SetInfinite(c) == [c EXCEPT !.infinite = TRUE]

IsInfinite(c) == c.infinite

\* a < b: an infinite cell is larger than every finite one.
Less(a, b) ==
    IF a.infinite THEN FALSE
    ELSE IF b.infinite THEN TRUE
    ELSE a.value < b.value

\* a -= b: an infinite cell stays infinite.
Minus(a, b) ==
    IF a.infinite THEN a ELSE [a EXCEPT !.value = a.value - b.value]

\* What a call yields: the value it returns, or the error it throws.
Value(v) == [threw |-> "none", value |-> v]

Throw(e) == [threw |-> e]

Threw(r, e) == r.threw = e

-----------------------------------------------------------------------------
(* Matrix<CostMatrixInteger>. *)

Cells(rows, columns) == (0..(rows - 1)) \X (0..(columns - 1))

SetSize(rows, columns) ==
    [numRows |-> rows, numColumns |-> columns,
     cells |-> [p \in Cells(rows, columns) |-> DefaultCell]]

GetNumRows(m) == m.numRows

GetNumColumns(m) == m.numColumns

-----------------------------------------------------------------------------
(* MakeVectorMapping and the constructor. *)

\* The condensed counter advanced for every cell, available or not.
RECURSIVE MakeVectorMappingCountingAll(_, _, _, _, _)
MakeVectorMappingCountingAll(available, size, cell_num, current, mapping) ==
    IF cell_num >= size THEN mapping
    ELSE IF ~available[cell_num]
         THEN MakeVectorMappingCountingAll(available, size, cell_num + 1,
                                           current + 1, mapping)
         ELSE MakeVectorMappingCountingAll(available, size, cell_num + 1,
                                           current + 1,
                                           mapping @@ (cell_num :> current))

RECURSIVE MakeVectorMappingFrom(_, _, _, _, _)
MakeVectorMappingFrom(available, size, cell_num, current, mapping) ==
    IF cell_num >= size THEN mapping
    ELSE IF ~available[cell_num]
         THEN MakeVectorMappingFrom(available, size, cell_num + 1, current, mapping)
         ELSE MakeVectorMappingFrom(available, size, cell_num + 1, current + 1,
                                    mapping @@ (cell_num :> current))

MakeVectorMapping(available, size) ==
    MakeVectorMappingFrom(available, size, 0, 0, <<>>)

RowAvailable(n, inc) == [i \in 0..(n - 1) |-> ~(\E e \in inc : e.u = i)]

ColumnAvailable(n, inc) == [i \in 0..(n - 1) |-> ~(\E e \in inc : e.v = i)]

IsAvailable(mapping, num) == num \in DOMAIN mapping

\* The loop of lines 44-50, cell by cell in the order i, j.
RECURSIVE FillCells(_, _, _, _, _, _, _)
FillCells(m, g, n, rm, cm, i, j) ==
    IF i >= n THEN m
    ELSE IF j >= n THEN FillCells(m, g, n, rm, cm, i + 1, 0)
    ELSE IF ~IsAvailable(rm, i) \/ ~IsAvailable(cm, j)
         THEN FillCells(m, g, n, rm, cm, i, j + 1)
         ELSE FillCells([m EXCEPT !.cells[<<rm[i], cm[j]>>] =
                                      CostMatrixInteger(g[<<i, j>>], Edge(i, j))],
                        g, n, rm, cm, i, j + 1)

\* SetInfinite called on a copy of the cell.
MarkExcludedCopy(m, rm, cm, e) == m

\* One exclude edge of the loop of lines 53-56.
MarkExcluded(m, rm, cm, e) ==
    IF ~IsAvailable(rm, e.u) \/ ~IsAvailable(cm, e.v) THEN m
    ELSE [m EXCEPT !.cells[<<rm[e.u], cm[e.v]>>] = SetInfinite(@)]

RECURSIVE MarkAllExcluded(_, _, _, _)
MarkAllExcluded(m, rm, cm, exc) ==
    IF exc = {} THEN m
    ELSE LET e == CHOOSE x \in exc : TRUE
         IN  MarkAllExcluded(MarkExcluded(m, rm, cm, e), rm, cm, exc \ {e})

ConstructMatrix(g, n, rm, cm, exc) ==
    MarkAllExcluded(
        FillCells(SetSize(Cardinality(DOMAIN rm), Cardinality(DOMAIN cm)),
                  g, n, rm, cm, 0, 0),
        rm, cm, exc)

-----------------------------------------------------------------------------
(* The inputs of the constructor, and the state it leaves. *)

Vertices(n) == 0..(n - 1)

Edges(n) == {Edge(u, v) : u \in Vertices(n), v \in Vertices(n)}

\* The include and exclude vectors: the constructor only tests membership in
\* them (lines 30-33 and 53-56), so their order and repetitions are left out;
\* their edges join vertices of the graph.
EdgeSets(n, k) == {s \in SUBSET Edges(n) : Cardinality(s) <= k}

\* The graphs of n vertices. The constructor reads graph(i, j) only for an
\* available row i and an available column j (lines 45-48) and nothing else
\* reads the graph, so the costs it never reads are left 0.
Graphs(n, inc) ==
    LET read == {p \in Vertices(n) \X Vertices(n) :
                    RowAvailable(n, inc)[p[1]] /\ ColumnAvailable(n, inc)[p[2]]}
    IN  {[p \in Vertices(n) \X Vertices(n) |-> IF p \in read THEN h[p] ELSE 0] :
            h \in [read -> Costs(n)]}

\* The 4-vertex graph of the specification's scenario; the graph stores its
\* infinite diagonal as a cost above every other cost.
Graph7 ==
    LET rows == << <<99, 10, 15, 20>>, <<10, 99, 35, 25>>,
                   <<15, 35, 99, 30>>, <<20, 25, 30, 99>> >>
    IN  [p \in Vertices(4) \X Vertices(4) |-> rows[p[1] + 1][p[2] + 1]]

\* CostMatrix::CostMatrix(graph, include, exclude), lines 25-57.
Constructor(n, g, inc, exc) ==
    /\ numVertices = n
    /\ graph = g
    /\ include = inc
    /\ exclude = exc
    /\ row_mapping_ = MakeVectorMapping(RowAvailable(n, inc), n)
    /\ column_mapping_ = MakeVectorMapping(ColumnAvailable(n, inc), n)
    /\ cost_matrix_ = ConstructMatrix(g, n, row_mapping_, column_mapping_, exc)
    /\ before = cost_matrix_
    /\ pc = "constructed"
    /\ fault = "none"
    /\ decremented = 0
    /\ rows_total = 0
    /\ call = <<"none">>
    /\ ret = Value("none")
    /\ row_num_ = 0
    /\ column_num_ = 0
    /\ it_state = "iterating"
    /\ visited = <<>>

-----------------------------------------------------------------------------
(* ReduceMatrix. *)

\* CostMatrix::Size(): the matrix is taken to be square, its size the number
\* of its rows.
Size(m) == GetNumRows(m)

\* CostRow / CostColumn: cell k of the view, and the view's length.
RowCell(m, row_num, k) == m.cells[<<row_num, k>>]

ColumnCell(m, column_num, k) == m.cells[<<k, column_num>>]

RowSize(m) == GetNumColumns(m)

ColumnSize(m) == GetNumRows(m)

\* std::min_element over a row: the first cell no other cell is less than;
\* the view's length when the view is empty.
\* std::max_element in the place of std::min_element.
RECURSIVE MaxRowFrom(_, _, _, _)
MaxRowFrom(m, row_num, largest, k) ==
    IF k >= RowSize(m) THEN largest
    ELSE MaxRowFrom(m, row_num,
                    IF Less(RowCell(m, row_num, largest), RowCell(m, row_num, k))
                    THEN k ELSE largest,
                    k + 1)

RECURSIVE MinRowFrom(_, _, _, _)
MinRowFrom(m, row_num, smallest, k) ==
    IF k >= RowSize(m) THEN smallest
    ELSE MinRowFrom(m, row_num,
                    IF Less(RowCell(m, row_num, k), RowCell(m, row_num, smallest))
                    THEN k ELSE smallest,
                    k + 1)

MinElementRow(m, row_num) ==
    IF RowSize(m) = 0 THEN RowSize(m) ELSE MinRowFrom(m, row_num, 0, 1)

\* The column's first cell taken for its minimum.
MinColumnFirst(m, column_num, smallest, k) == smallest

RECURSIVE MinColumnFrom(_, _, _, _)
MinColumnFrom(m, column_num, smallest, k) ==
    IF k >= ColumnSize(m) THEN smallest
    ELSE MinColumnFrom(m, column_num,
                       IF Less(ColumnCell(m, column_num, k),
                               ColumnCell(m, column_num, smallest))
                       THEN k ELSE smallest,
                       k + 1)

MinElementColumn(m, column_num) ==
    IF ColumnSize(m) = 0 THEN ColumnSize(m) ELSE MinColumnFrom(m, column_num, 0, 1)

\* A for_each whose lambda takes the cell by value: nothing is subtracted.
SubtractFromRowByValue(m, row_num, min) == m

\* for_each over a row / a column: elt -= min.
SubtractFromRow(m, row_num, min) ==
    [m EXCEPT !.cells = [p \in DOMAIN m.cells |->
        IF p[1] = row_num THEN Minus(m.cells[p], min) ELSE m.cells[p]]]

SubtractFromColumn(m, column_num, min) ==
    [m EXCEPT !.cells = [p \in DOMAIN m.cells |->
        IF p[2] = column_num THEN Minus(m.cells[p], min) ELSE m.cells[p]]]

Outcome(p, f, m, dec) == [pc |-> p, fault |-> f, matrix |-> m, decremented |-> dec]

\* The loop of lines 64-73, from row row_num on: the matrix and the total after
\* the last row, or the assertion that stopped it.
RECURSIVE ReduceRows(_, _, _)
ReduceRows(m, row_num, dec) ==
    IF row_num >= Size(m) THEN Outcome("columns", "none", m, dec)
    ELSE LET min_it == MinElementRow(m, row_num)
         IN  IF min_it = RowSize(m)
             THEN Outcome("aborted", "assert_67", m, dec)
             ELSE LET min == RowCell(m, row_num, min_it)
                  IN  IF IsInfinite(min)
                      THEN Outcome("aborted", "assert_69", m, dec)
                      ELSE ReduceRows(SubtractFromRow(m, row_num, min),
                                      row_num + 1, dec + min.value)

\* What a read of a cell outside the matrix may yield as a column's minimum.
OutsideValues == 0..1

\* The loop of lines 76-84, from column column_num on: the set of its possible
\* outcomes. A column number that is not one of the matrix (Size() is the
\* number of rows) is an access outside the storage: the storage may stop the
\* program, or the minimum read there is any cell at all, infinite or not,
\* and the subtraction lands outside the matrix.
RECURSIVE ReduceColumns(_, _, _)
ReduceColumns(m, column_num, dec) ==
    IF column_num >= Size(m) THEN {Outcome("returned", "none", m, dec)}
    ELSE IF column_num >= GetNumColumns(m)
    THEN {Outcome("aborted", "out_of_range", m, dec),
          Outcome("aborted", "assert_80", m, dec)}
         \cup UNION {ReduceColumns(m, column_num + 1, dec + g) : g \in OutsideValues}
    ELSE LET min == ColumnCell(m, column_num, MinElementColumn(m, column_num))
         IN  IF IsInfinite(min)
             THEN {Outcome("aborted", "assert_80", m, dec)}
             ELSE ReduceColumns(SubtractFromColumn(m, column_num, min),
                                column_num + 1, dec + min.value)

ReduceOutcomes(m) ==
    LET rows == ReduceRows(m, 0, 0)
    IN  IF rows.pc = "aborted" THEN {rows}
        ELSE ReduceColumns(rows.matrix, 0, rows.decremented)

\* int CostMatrix::ReduceMatrix(), lines 59-87.
ReduceMatrix ==
    /\ pc = "constructed"
    /\ \E out \in ReduceOutcomes(cost_matrix_) :
          /\ cost_matrix_' = out.matrix
          /\ decremented' = out.decremented
          /\ rows_total' = ReduceRows(cost_matrix_, 0, 0).decremented
          /\ pc' = out.pc
          /\ fault' = out.fault
    /\ before' = cost_matrix_
    /\ UNCHANGED <<numVertices, graph, include, exclude, row_mapping_,
                   column_mapping_, call, ret, row_num_, column_num_,
                   it_state, visited>>

-----------------------------------------------------------------------------
(* The specification of construction followed by one reduction. *)

Init ==
    \/ \E n \in VertexCounts :
         \E inc \in EdgeSets(n, MaxInclude) :
            \E g \in Graphs(n, inc), exc \in EdgeSets(n, MaxExclude) :
                Constructor(n, g, inc, exc)
    \/ Constructor(4, Graph7, {}, {})

Next == ReduceMatrix

Spec == Init /\ [][Next]_vars

-----------------------------------------------------------------------------
(* Access by original vertex numbers. *)

IsRowAvailable(row_num) == IsAvailable(row_mapping_, row_num)

IsColumnAvailable(column_num) == IsAvailable(column_mapping_, column_num)

\* The availability test made on the other axis's mapping; map::at throws
\* when the number is no key of the mapping.
GetCondensedRowNumByColumn(row_num) ==
    IF ~IsColumnAvailable(row_num) THEN Throw("NotAvailableError")
    ELSE IF row_num \in DOMAIN row_mapping_ THEN Value(row_mapping_[row_num])
    ELSE Throw("out_of_range")

\* int CostMatrix::GetCondensedRowNum(int row_num) const, lines 106-110.
GetCondensedRowNum(row_num) ==
    IF ~IsRowAvailable(row_num) THEN Throw("NotAvailableError")
    ELSE Value(row_mapping_[row_num])

\* int CostMatrix::GetCondensedColumnNum(int column_num) const, lines 112-116.
GetCondensedColumnNum(column_num) ==
    IF ~IsColumnAvailable(column_num) THEN Throw("NotAvailableError")
    ELSE Value(column_mapping_[column_num])

\* CostMatrix::operator()(const Edge& e), lines 91-97: both numbers are
\* condensed, in either order, before the cell is read; what either call
\* throws leaves the operator.
CellAt(e) ==
    LET r == GetCondensedRowNum(e.u)
        c == GetCondensedColumnNum(e.v)
    IN  IF r.threw # "none" /\ c.threw # "none" THEN {r, c}
        ELSE IF r.threw # "none" THEN {r}
        ELSE IF c.threw # "none" THEN {c}
        ELSE {Value(cost_matrix_.cells[<<r.value, c.value>>])}

\* CostMatrix::GetRow, lines 100-101.
GetRow(row_num) ==
    LET r == GetCondensedRowNum(row_num)
    IN  IF r.threw # "none" THEN r
        ELSE Value([view |-> "CostRow", num |-> r.value])

\* CostMatrix::GetColumn, lines 103-104.
GetColumn(column_num) ==
    LET c == GetCondensedColumnNum(column_num)
    IN  IF c.threw # "none" THEN c
        ELSE Value([view |-> "CostColumn", num |-> c.value])

Returns(c, r) ==
    /\ call' = c
    /\ ret' = r
    /\ UNCHANGED <<numVertices, graph, include, exclude, row_mapping_,
                   column_mapping_, cost_matrix_, before, pc, fault,
                   decremented, rows_total, row_num_, column_num_, it_state,
                   visited>>

CallGetCondensedRowNum ==
    \E u \in Vertices(numVertices) :
        Returns(<<"GetCondensedRowNum", u>>, GetCondensedRowNum(u))

CallGetCondensedColumnNum ==
    \E v \in Vertices(numVertices) :
        Returns(<<"GetCondensedColumnNum", v>>, GetCondensedColumnNum(v))

CallCellAt ==
    \E u \in Vertices(numVertices), v \in Vertices(numVertices) :
        \E r \in CellAt(Edge(u, v)) : Returns(<<"operator()", u, v>>, r)

CallGetRow ==
    \E u \in Vertices(numVertices) : Returns(<<"GetRow", u>>, GetRow(u))

CallGetColumn ==
    \E v \in Vertices(numVertices) : Returns(<<"GetColumn", v>>, GetColumn(v))

\* A graph whose every ordered pair has a cost of its own.
DistinctGraph(n) == [p \in Vertices(n) \X Vertices(n) |-> p[1] * n + p[2] + 1]

\* The scenario of the specification: edge (0,1) included on 4 vertices.
InitAccess ==
    \/ \E n \in VertexCounts :
         \E inc \in EdgeSets(n, MaxInclude), exc \in EdgeSets(n, MaxExclude) :
            Constructor(n, DistinctGraph(n), inc, exc)
    \/ \E exc \in EdgeSets(4, MaxExclude) :
         Constructor(4, Graph7, {Edge(0, 1)}, exc)

NextAccess ==
    \/ CallGetCondensedRowNum
    \/ CallGetCondensedColumnNum
    \/ CallCellAt
    \/ CallGetRow
    \/ CallGetColumn

SpecAccess == InitAccess /\ [][NextAccess]_vars

-----------------------------------------------------------------------------
(* CostMatrix::Iterator. *)

AtEnd == row_num_ = GetNumRows(cost_matrix_) /\ column_num_ = 0

IteratorUnchanged ==
    UNCHANGED <<numVertices, graph, include, exclude, row_mapping_,
                column_mapping_, cost_matrix_, before, pc, fault, decremented,
                rows_total, call, ret>>

\* void CostMatrix::Iterator::MoveToNextCell(), lines 187-195, called by
\* operator++. With no column the remainder of line 193 divides by zero: the
\* program traps, or column_num_ is left with any value.
MoveToNextCell ==
    /\ it_state = "iterating"
    /\ \/ /\ AtEnd
          /\ UNCHANGED <<row_num_, column_num_, it_state, visited>>
       \/ /\ ~AtEnd
          /\ GetNumColumns(cost_matrix_) # 0
          /\ column_num_' = (column_num_ + 1) % GetNumColumns(cost_matrix_)
          /\ row_num_' = IF column_num_' = 0 THEN row_num_ + 1 ELSE row_num_
          /\ visited' = Append(visited, <<row_num_, column_num_>>)
          /\ UNCHANGED it_state
       \/ /\ ~AtEnd
          /\ GetNumColumns(cost_matrix_) = 0
          /\ it_state' = "undefined"
          /\ \E c \in 0..1 :
                /\ column_num_' = c
                /\ row_num_' = IF c = 0 THEN row_num_ + 1 ELSE row_num_
          /\ visited' = Append(visited, <<row_num_, column_num_>>)
    /\ IteratorUnchanged

\* begin() of the constructed matrix: the iterator at row 0, column 0.
InitIterator ==
    \E n \in VertexCounts :
        \E inc \in EdgeSets(n, MaxInclude) :
            Constructor(n, DistinctGraph(n), inc, {})

NextIterator == MoveToNextCell

SpecIterator == InitIterator /\ [][NextIterator]_vars

-----------------------------------------------------------------------------
(* Notions the properties are stated with. *)

RowsOf(m) == 0..(m.numRows - 1)

ColumnsOf(m) == 0..(m.numColumns - 1)

Square(m) == m.numRows = m.numColumns

Finite(m, r, c) == ~m.cells[<<r, c>>].infinite

RowHasFinite(m, r) == \E c \in ColumnsOf(m) : Finite(m, r, c)

ColumnHasFinite(m, c) == \E r \in RowsOf(m) : Finite(m, r, c)

EveryRowAndColumnHasFinite(m) ==
    /\ \A r \in RowsOf(m) : RowHasFinite(m, r)
    /\ \A c \in ColumnsOf(m) : ColumnHasFinite(m, c)

RowHasZero(m, r) ==
    \E c \in ColumnsOf(m) : Finite(m, r, c) /\ m.cells[<<r, c>>].value = 0

ColumnHasZero(m, c) ==
    \E r \in RowsOf(m) : Finite(m, r, c) /\ m.cells[<<r, c>>].value = 0

Least(S) == CHOOSE x \in S : \A y \in S : x <= y

\* The least finite cell of a row / a column that holds one.
RowMinimum(m, r) ==
    Least({m.cells[<<r, c>>].value : c \in {c \in ColumnsOf(m) : Finite(m, r, c)}})

ColumnMinimum(m, c) ==
    Least({m.cells[<<r, c>>].value : r \in {r \in RowsOf(m) : Finite(m, r, c)}})

RECURSIVE SumOver(_, _)
SumOver(S, f) ==
    IF S = {} THEN 0
    ELSE LET x == CHOOSE x \in S : TRUE IN f[x] + SumOver(S \ {x}, f)

\* m with the least finite cell of each row taken off the row's finite cells.
RowReduced(m) ==
    [m EXCEPT !.cells = [p \in DOMAIN m.cells |->
        IF m.cells[p].infinite THEN m.cells[p]
        ELSE [m.cells[p] EXCEPT !.value = @ - RowMinimum(m, p[1])]]]

SumOfRowMinima(m) == SumOver(RowsOf(m), [r \in RowsOf(m) |-> RowMinimum(m, r)])

SumOfColumnMinima(m) ==
    SumOver(ColumnsOf(m), [c \in ColumnsOf(m) |-> ColumnMinimum(m, c)])

\* The assignments of a square matrix: one finite cell in each row and column.
Assignments(m) ==
    {a \in [RowsOf(m) -> ColumnsOf(m)] :
        /\ \A r1, r2 \in RowsOf(m) : a[r1] = a[r2] => r1 = r2
        /\ \A r \in RowsOf(m) : Finite(m, r, a[r])}

AssignmentCost(m, a) ==
    SumOver(RowsOf(m), [r \in RowsOf(m) |-> m.cells[<<r, a[r]>>].value])

-----------------------------------------------------------------------------
(* The properties. *)

\* C1: after one call of ReduceMatrix on a matrix whose every condensed row
\* and column held a finite cell, every condensed row and every condensed
\* column holds a cell equal to 0.
C1_EveryRowAndColumnHasZero ==
    (pc = "returned" /\ EveryRowAndColumnHasFinite(before)) =>
        /\ \A r \in RowsOf(cost_matrix_) : RowHasZero(cost_matrix_, r)
        /\ \A c \in ColumnsOf(cost_matrix_) : ColumnHasZero(cost_matrix_, c)

\* C2: the value ReduceMatrix returns is the sum of the least finite cell of
\* every condensed row of the matrix as it was, plus the sum of the least
\* finite cell of every condensed column of the row-reduced matrix.
C2_ReturnsRowPlusColumnMinima ==
    (pc = "returned" /\ EveryRowAndColumnHasFinite(before)) =>
        decremented = SumOfRowMinima(before) + SumOfColumnMinima(RowReduced(before))

\* C3: for a square condensed matrix and every assignment of one finite cell
\* to each row and column, the cost of the assignment before the call is its
\* cost after the call plus the returned total, so that the total is a lower
\* bound of the cost of every assignment.
C3_TotalIsAdditiveLowerBound ==
    (pc = "returned" /\ Square(before)) =>
        \A a \in Assignments(before) :
            /\ AssignmentCost(before, a) =
                   AssignmentCost(cost_matrix_, a) + decremented
            /\ decremented <= AssignmentCost(before, a)

C3_Witness ==
    /\ pc = "returned"
    /\ Square(before)
    /\ before.numRows = 3
    /\ decremented > rows_total
    /\ rows_total > 0
    /\ \E a \in Assignments(before) : AssignmentCost(cost_matrix_, a) > 0

\* C7 (as amended): on the 4-vertex graph of the scenario with no include and
\* no exclude edge the condensed matrix is 4x4, the rows contribute
\* 10+10+15+20, the columns of the row-reduced matrix add 0+0+5+10, the call
\* returns their sum 70, and every row and column is left with a least cell 0.
Scenario7 ==
    numVertices = 4 /\ graph = Graph7 /\ include = {} /\ exclude = {}

C7_ScenarioReduction ==
    Scenario7 =>
        /\ cost_matrix_.numRows = 4 /\ cost_matrix_.numColumns = 4
        /\ pc = "returned" =>
              /\ rows_total = 10 + 10 + 15 + 20
              /\ decremented = rows_total + (0 + 0 + 5 + 10)
              /\ decremented = rows_total + SumOfColumnMinima(RowReduced(before))
              /\ \A r \in RowsOf(cost_matrix_) : RowMinimum(cost_matrix_, r) = 0
              /\ \A c \in ColumnsOf(cost_matrix_) : ColumnMinimum(cost_matrix_, c) = 0

C7_Witness == Scenario7 /\ pc = "returned" /\ decremented = 70

\* C7 (as stated): the rows of the scenario contribute 10+25+15+20.
C7_RowsContribute70 ==
    (Scenario7 /\ pc = "returned") =>
        /\ rows_total = 10 + 25 + 15 + 20
        /\ decremented = rows_total + SumOfColumnMinima(RowReduced(before))

C9_ReturnsIffEveryRowAndColumnHasFinite ==
    pc # "constructed" =>
        /\ pc = "returned" <=> EveryRowAndColumnHasFinite(before)
        /\ pc = "aborted" => fault \in {"assert_67", "assert_69", "assert_80"}

\* C4: the condensed matrix has as many rows as vertices that are no origin
\* of an include edge and as many columns as vertices that are no destination
\* of one, whatever is excluded; each mapping holds exactly the available
\* vertices, maps them one to one onto [0, count) and keeps their order.
Origins == {e.u : e \in include}

Destinations == {e.v : e \in include}

Condenses(mapping, available, count) ==
    /\ DOMAIN mapping = available
    /\ {mapping[u] : u \in available} = 0..(count - 1)
    /\ \A u, v \in available : u < v => mapping[u] < mapping[v]

C4_MappingsCondense ==
    /\ cost_matrix_.numRows = numVertices - Cardinality(Origins)
    /\ cost_matrix_.numColumns = numVertices - Cardinality(Destinations)
    /\ Condenses(row_mapping_, Vertices(numVertices) \ Origins,
                 cost_matrix_.numRows)
    /\ Condenses(column_mapping_, Vertices(numVertices) \ Destinations,
                 cost_matrix_.numColumns)

C4_Witness ==
    /\ Cardinality(include) = 2
    /\ Cardinality(Origins) = 1
    /\ exclude # {}
    /\ cost_matrix_.numRows = 2
    /\ cost_matrix_.numColumns = 1
    /\ \E u \in DOMAIN row_mapping_ : row_mapping_[u] < u

\* C5: right after construction the cell of every available row u and
\* available column v is infinite when (u,v) is excluded and otherwise finite
\* with the value graph(u,v); it carries the edge (u,v); an exclude edge of an
\* unavailable row or column changes no cell.
C5_CellsAfterConstruction ==
    pc = "constructed" =>
        \A u \in DOMAIN row_mapping_, v \in DOMAIN column_mapping_ :
            LET cell == cost_matrix_.cells[<<row_mapping_[u], column_mapping_[v]>>]
            IN  /\ cell.edge = Edge(u, v)
                /\ cell # DefaultCell
                /\ cell.infinite <=> Edge(u, v) \in exclude
                /\ ~cell.infinite => cell.value = graph[<<u, v>>]

C5_Witness ==
    /\ pc = "constructed"
    /\ \E e \in exclude : ~IsRowAvailable(e.u) \/ ~IsColumnAvailable(e.v)
    /\ \E e \in exclude : IsRowAvailable(e.u) /\ IsColumnAvailable(e.v)
    /\ cost_matrix_.numRows >= 2
    /\ cost_matrix_.numColumns >= 2

\* C6: every access by a vertex that is the origin (for a row) or the
\* destination (for a column) of an include edge throws NotAvailableError,
\* every access by available vertices returns, and no call changes the matrix
\* or the mappings; with edge (0,1) included on 4 vertices the matrix is 3x3
\* with rows {1,2,3} and columns {0,2,3}.
RowCommitted(u) == \E e \in include : e.u = u

ColumnCommitted(v) == \E e \in include : e.v = v

ThrowsExactlyWhen(committed) ==
    /\ committed => Threw(ret, "NotAvailableError")
    /\ ~committed => Threw(ret, "none")

C6_CommittedVerticesThrow ==
    /\ call[1] \in {"GetCondensedRowNum", "GetRow"} =>
           ThrowsExactlyWhen(RowCommitted(call[2]))
    /\ call[1] \in {"GetCondensedColumnNum", "GetColumn"} =>
           ThrowsExactlyWhen(ColumnCommitted(call[2]))
    /\ call[1] = "operator()" =>
           ThrowsExactlyWhen(RowCommitted(call[2]) \/ ColumnCommitted(call[3]))
    /\ cost_matrix_ = before
    /\ row_mapping_ = MakeVectorMapping(RowAvailable(numVertices, include), numVertices)
    /\ column_mapping_ =
           MakeVectorMapping(ColumnAvailable(numVertices, include), numVertices)
    /\ (numVertices = 4 /\ include = {Edge(0, 1)}) =>
           /\ cost_matrix_.numRows = 3 /\ cost_matrix_.numColumns = 3
           /\ DOMAIN row_mapping_ = {1, 2, 3}
           /\ DOMAIN column_mapping_ = {0, 2, 3}

C6_Witness ==
    /\ numVertices = 4
    /\ include = {Edge(0, 1)}
    /\ call = <<"operator()", 0, 2>>
    /\ Threw(ret, "NotAvailableError")

\* C10: from (0,0) the iterator is at the end state after exactly rows x
\* columns increments and not before, it was at the cells in row-major order,
\* and no increment is undefined; for every size of matrix, the empty ones
\* included.
C10_IteratorVisitsEveryCellOnce ==
    LET rows == GetNumRows(cost_matrix_)
        columns == GetNumColumns(cost_matrix_)
    IN  /\ it_state = "iterating"
        /\ AtEnd <=> Len(visited) = rows * columns
        /\ columns > 0 =>
              \A k \in 1..Len(visited) :
                  visited[k] = <<(k - 1) \div columns, (k - 1) % columns>>

====
